---------------------------- MODULE Spec2Model ----------------------------
(***************************************************************************)
(* Doctor appointment chatbot: the PostgreSQL tables of database.py, the   *)
(* functions of database.py that read and write them, and the Streamlit    *)
(* script of doctor.py that drives them from one browser session.          *)
(*                                                                         *)
(* A time of day (datetime.time) is the number of minutes since midnight;  *)
(* a time string "HH:MM" is the pair <<HH, MM>>; strptime and strftime     *)
(* convert between the two.  A table is the bag of its rows without the    *)
(* SERIAL id, which no statement of the program reads.                     *)
(*                                                                         *)
(* book_appointment runs in three steps, so that the calls of several      *)
(* callers interleave between its SELECT and its INSERT + commit.          *)
(***************************************************************************)
EXTENDS Integers, Sequences, FiniteSets, Bags, TLC

VARIABLES
    users,              \* table users: set of [username, password]
    appointment_slots,  \* table appointment_slots: bag of rows
    call,               \* per caller: the book_appointment call in flight
    done,               \* per caller: the call that returned last, with its result
    confirmed,          \* history: the (date, slot) keys some call has confirmed
    chat_history,       \* table chat_history: rows in message_time order
    user_personal_information,  \* table user_personal_information: bag of rows
    user_feedback,      \* table user_feedback: bag of rows
    session_state,      \* st.session_state of the browser session
    uuids,              \* number of uuid.uuid4() values drawn so far
    notice              \* st.success / st.warning / st.error shown by the last script run

calls == <<call, done, confirmed>>
stores == <<chat_history, user_personal_information, user_feedback>>
session == <<session_state, uuids, notice>>
vars == <<users, appointment_slots, call, done, confirmed, chat_history,
          user_personal_information, user_feedback, session_state, uuids, notice>>

-----------------------------------------------------------------------------
(* Input domains *)

Users == {"alice", "bob"}
Dates == {"2024-06-10", "2024-06-11"}
\* "09:00" (bookable), "13:00" (lunch), "17:00" (after the working window)
SlotStrings == {<<9, 0>>, <<13, 0>>, <<17, 0>>}
\* Callers of database.py other than this browser session's script run: each
\* user's own client
Callers == Users
UI == "ui"
Procs == Callers \cup {UI}
Passwords == {"pw", "typo"}
Utterances == {"hi", "Book Appointment"}
FaqResults ==
    {[answer |-> "", similarity |-> 0, found |-> FALSE],
     [answer |-> "We open at 9.", similarity |-> 7, found |-> TRUE],
     [answer |-> "We open at 9.", similarity |-> 9, found |-> TRUE]}
LlmReplies == {"Please rest."}

\* Bounds
MaxLogins == 2
MaxTurns == 2
MaxRows == 3

-----------------------------------------------------------------------------
(* datetime *)

time(hour, minute) == hour * 60 + minute

strptime(slot_time_str) == time(slot_time_str[1], slot_time_str[2])

strftime(slot) == <<slot \div 60, slot % 60>>

timedelta(minutes) == minutes

-----------------------------------------------------------------------------
(* database.py: users *)

hash_password(password) == <<"bcrypt", password>>

verify_password(stored_password, provided_password) ==
    stored_password = hash_password(provided_password)

Registered == {u.username : u \in users}

\* register_user: the new users table
register_user(username, password) ==
    IF username = "" THEN users
    ELSE IF \E u \in users : u.username = username THEN users
    ELSE users \cup {[username |-> username, password |-> hash_password(password)]}

login_user(username, password) ==
    \E u \in users : u.username = username /\ verify_password(u.password, password)

-----------------------------------------------------------------------------
(* database.py: appointment_slots *)

start_time == time(9, 0)
end_time == time(17, 0)
interval == timedelta(30)
lunch_start == time(13, 0)
lunch_end == time(14, 0)

Row(appointment_date, slot_time, username) ==
    [appointment_date |-> appointment_date, slot_time |-> slot_time,
     is_booked |-> TRUE, booked_by |-> username]

\* mutant: the SELECT without its WHERE clause
booked_slots_all_dates(date) ==
    {r.slot_time : r \in BagToSet(appointment_slots)}

\* SELECT slot_time FROM appointment_slots WHERE appointment_date = date
booked_slots(date) ==
    {r.slot_time : r \in {x \in BagToSet(appointment_slots) : x.appointment_date = date}}

RECURSIVE slot_loop(_, _, _)
slot_loop(current_time, booked, available_slots) ==
    IF ~(current_time < end_time) THEN available_slots
    ELSE IF lunch_start <= current_time /\ current_time < lunch_end
         THEN slot_loop(current_time + interval, booked, available_slots)
    ELSE IF current_time \notin booked
         THEN slot_loop(current_time + interval, booked,
                        Append(available_slots, current_time))
    ELSE slot_loop(current_time + interval, booked, available_slots)

fetch_available_slots(date) == slot_loop(start_time, booked_slots(date), <<>>)

\* The values book_appointment returns
BOOKED == "Appointment booked successfully."
ALREADY_BOOKED == "Slot already booked."
LUNCH_TIME == "No appointments can be booked during lunch time from 13:00 to 14:00."
DATABASE_ERROR == "Database error: {err}"
NO_RESULT == "None"

Idle ==
    [pc |-> "idle", username |-> "", appointment_date |-> "",
     slot_time_str |-> <<0, 0>>, after |-> FALSE]

NoCall ==
    [username |-> "", appointment_date |-> "", slot_time |-> 0,
     result |-> NO_RESULT, after |-> FALSE]

\* SELECT is_booked FROM appointment_slots WHERE appointment_date = %s AND slot_time = %s
select_is_booked(appointment_date, slot_time) ==
    {r \in BagToSet(appointment_slots) :
        r.appointment_date = appointment_date /\ r.slot_time = slot_time}

\* mutant: the INSERT leaves is_booked to the column's DEFAULT FALSE
insert_slot_unflagged(appointment_date, slot_time, username) ==
    appointment_slots (+)
    SetToBag({[Row(appointment_date, slot_time, username) EXCEPT !.is_booked = FALSE]})

\* mutant: the day's rows are deleted before the INSERT
insert_slot_replace_day(appointment_date, slot_time, username) ==
    LET kept == {r \in BagToSet(appointment_slots) :
                    r.appointment_date # appointment_date}
    IN [r \in kept |-> CopiesIn(r, appointment_slots)]
       (+) SetToBag({Row(appointment_date, slot_time, username)})

\* mutant: one appointment per user, the user's earlier rows are deleted
insert_slot_one_per_user(appointment_date, slot_time, username) ==
    LET kept == {r \in BagToSet(appointment_slots) : r.booked_by # username}
    IN [r \in kept |-> CopiesIn(r, appointment_slots)]
       (+) SetToBag({Row(appointment_date, slot_time, username)})

\* INSERT INTO appointment_slots ... VALUES (%s, %s, TRUE, %s): the new table
insert_slot(appointment_date, slot_time, username) ==
    appointment_slots (+) SetToBag({Row(appointment_date, slot_time, username)})

\* FOREIGN KEY (booked_by) REFERENCES users(username)
booked_by_fk(username) == username \in Registered

\* mutant: lunch_start < slot_time < lunch_end
in_lunch_strict(slot_time) == lunch_start < slot_time /\ slot_time < lunch_end

\* lunch_start <= slot_time < lunch_end
in_lunch(slot_time) == lunch_start <= slot_time /\ slot_time < lunch_end

\* book_appointment returns `result` to caller p
Return(p, result) ==
    /\ call' = [call EXCEPT ![p] = Idle]
    /\ done' = [done EXCEPT ![p] =
                    [username |-> call[p].username,
                     appointment_date |-> call[p].appointment_date,
                     slot_time |-> strptime(call[p].slot_time_str),
                     result |-> result, after |-> call[p].after]]

\* book_appointment is called: connection and cursor are opened
book_begin(p, username, appointment_date, slot_time_str) ==
    /\ call[p].pc = "idle"
    /\ call' = [call EXCEPT ![p] =
                    [pc |-> "open", username |-> username,
                     appointment_date |-> appointment_date,
                     slot_time_str |-> slot_time_str,
                     after |-> <<appointment_date, strptime(slot_time_str)>> \in confirmed]]
    /\ done' = [done EXCEPT ![p] = NoCall]
    /\ UNCHANGED <<users, appointment_slots, confirmed>>

\* the lunch check and the SELECT
book_select(p) ==
    /\ call[p].pc = "open"
    /\ LET slot_time == strptime(call[p].slot_time_str)
           rows == select_is_booked(call[p].appointment_date, slot_time)
       IN IF in_lunch(slot_time)
          THEN Return(p, LUNCH_TIME)
          ELSE \/ /\ \E result \in rows : result.is_booked
                  /\ Return(p, ALREADY_BOOKED)
               \/ /\ rows = {} \/ \E result \in rows : ~result.is_booked
                  /\ call' = [call EXCEPT ![p].pc = "selected"]
                  /\ UNCHANGED done
    /\ UNCHANGED <<users, appointment_slots, confirmed>>

\* the INSERT and the commit, or the rollback
book_insert(p) ==
    /\ call[p].pc = "selected"
    /\ LET slot_time == strptime(call[p].slot_time_str)
       IN IF booked_by_fk(call[p].username)
          THEN /\ appointment_slots' =
                     insert_slot(call[p].appointment_date, slot_time, call[p].username)
               /\ confirmed' = confirmed \cup {<<call[p].appointment_date, slot_time>>}
               /\ Return(p, BOOKED)
          ELSE /\ UNCHANGED <<appointment_slots, confirmed>>
               /\ Return(p, DATABASE_ERROR)
    /\ UNCHANGED users

-----------------------------------------------------------------------------
(* database.py: user_personal_information, chat_history, user_feedback *)

\* create_tables declares no UNIQUE constraint on user_personal_information.username
personal_information_username_unique == FALSE

\* insert_personal_information: the new table.  Without a unique index on the
\* conflict target PostgreSQL rejects INSERT ... ON CONFLICT (username), and the
\* function reports the psycopg2.Error and stores nothing.
insert_personal_information(username, name, birth_date, reason_for_appointment) ==
    LET row == [username |-> username, name |-> name, birth_date |-> birth_date,
                reason_for_appointment |-> reason_for_appointment]
        others == {r \in BagToSet(user_personal_information) : r.username # username}
    IN IF personal_information_username_unique
       THEN SetToBag(others \cup {row})
       ELSE user_personal_information

\* SELECT DISTINCT session_id FROM chat_history WHERE username = %s
fetch_user_chat_sessions(username) ==
    {chat_history[i].session_id :
        i \in {j \in DOMAIN chat_history : chat_history[j].username = username}}

\* mutant: the SELECT without the username condition
fetch_chat_history_any_user(username, session_id) ==
    LET rows == SelectSeq(chat_history, LAMBDA r : r.session_id = session_id)
    IN [i \in DOMAIN rows |-> <<rows[i].user_message, rows[i].ai_message>>]

\* mutant: ORDER BY message_time DESC
fetch_chat_history_desc(username, session_id) ==
    LET rows == SelectSeq(chat_history,
                    LAMBDA r : r.username = username /\ r.session_id = session_id)
    IN [i \in DOMAIN rows |->
            <<rows[Len(rows) + 1 - i].user_message, rows[Len(rows) + 1 - i].ai_message>>]

\* SELECT user_message, ai_message ... WHERE username = %s AND session_id = %s
\* ORDER BY message_time
fetch_chat_history(username, session_id) ==
    LET rows == SelectSeq(chat_history,
                    LAMBDA r : r.username = username /\ r.session_id = session_id)
    IN [i \in DOMAIN rows |-> <<rows[i].user_message, rows[i].ai_message>>]

\* save_chat_history: the new table.  FOREIGN KEY (username) REFERENCES
\* users(username): the INSERT of an unknown username is rejected and reported
save_chat_history(username, session_id, user_message, ai_message) ==
    IF username \in Registered
    THEN Append(chat_history,
                [username |-> username, session_id |-> session_id,
                 user_message |-> user_message, ai_message |-> ai_message])
    ELSE chat_history

-----------------------------------------------------------------------------
(* doctor.py: session state *)

None == "None"

WELCOME ==
    "Welcome to the doctor appointment service! How can I assist you today?"

defaults ==
    [username |-> None,
     current_session_id |-> None,
     past |-> <<>>,
     generated |-> <<>>,
     input_text |-> "",
     messages |-> <<[role |-> "assistant", content |-> WELCOME]>>,
     personal_info_collected |-> FALSE,
     feedback_collected |-> FALSE,
     logout |-> FALSE,
     appointment_booked |-> FALSE,
     page |-> "chat"]

\* a new script run: the value book_appointment returned to the last run is gone
NewRun ==
    /\ done' = [done EXCEPT ![UI] = NoCall]
    /\ UNCHANGED <<call, confirmed>>

\* not st.session_state.get('username')
Anonymous == session_state.username \in {None, ""}

\* str(uuid.uuid4())
uuid4 == ToString(uuids + 1)

\* what register_user shows
register_notice(username) ==
    IF username = "" THEN <<"Username cannot be empty.">>
    ELSE IF \E u \in users : u.username = username
         THEN <<"Username already exists. Please choose a different one.">>
    ELSE <<"You have successfully registered.">>

\* mutant: a successful registration logs the new user in
RegisterAndLogin(username, password, confirm_password) ==
    /\ Anonymous
    /\ password = confirm_password
    /\ users' = register_user(username, password)
    /\ notice' = register_notice(username) \o <<"Registered. Please login.">>
    /\ session_state' =
          IF users' # users
          THEN [session_state EXCEPT !.username = username,
                                     !.current_session_id = uuid4]
          ELSE session_state
    /\ NewRun
    /\ UNCHANGED <<appointment_slots, stores, uuids>>

\* the Register button
Register(username, password, confirm_password) ==
    /\ Anonymous
    /\ IF password = confirm_password
       THEN /\ users' = register_user(username, password)
            /\ notice' = register_notice(username) \o <<"Registered. Please login.">>
       ELSE /\ notice' = <<"Passwords do not match">>
            /\ UNCHANGED users
    /\ NewRun
    /\ UNCHANGED <<appointment_slots, stores, session_state, uuids>>

\* the Login button
Login(username, password) ==
    /\ Anonymous
    /\ IF login_user(username, password)
       THEN /\ uuids < MaxLogins
            /\ session_state' = [session_state EXCEPT
                                   !.username = username,
                                   !.current_session_id = uuid4,
                                   !.past = <<>>,
                                   !.generated = <<>>,
                                   !.messages = <<>>]
            /\ uuids' = uuids + 1
            /\ notice' = <<"Logged in as {username}">>
       ELSE /\ notice' = <<"Invalid Username/Password">>
            /\ UNCHANGED <<session_state, uuids>>
    /\ NewRun
    /\ UNCHANGED <<users, appointment_slots, stores>>

\* a script run of the logged-in part handles one widget event, and none while
\* the run that called book_appointment has not finished
LoggedIn == ~Anonymous /\ call[UI].pc = "idle"

\* the Submit Personal Information button
SubmitPersonalInformation(name, birth_date, reason_for_appointment) ==
    /\ LoggedIn
    /\ ~session_state.personal_info_collected
    /\ user_personal_information' =
          insert_personal_information(session_state.username, name, birth_date,
                                      reason_for_appointment)
    /\ session_state' = [session_state EXCEPT !.personal_info_collected = TRUE]
    /\ notice' = (IF personal_information_username_unique THEN <<>>
                  ELSE <<"Database error: {err}">>)
                 \o <<"Personal information saved successfully.">>
    /\ NewRun
    /\ UNCHANGED <<users, appointment_slots, chat_history, user_feedback, uuids>>

\* a sidebar button of one of the user's chat sessions
SelectSession(session_id) ==
    /\ LoggedIn
    /\ session_id \in fetch_user_chat_sessions(session_state.username)
    /\ LET history == fetch_chat_history(session_state.username, session_id)
       IN session_state' = [session_state EXCEPT
                               !.current_session_id = session_id,
                               !.past = [i \in DOMAIN history |-> history[i][1]],
                               !.generated = [i \in DOMAIN history |-> history[i][2]]]
    /\ notice' = <<>>
    /\ NewRun
    /\ UNCHANGED <<users, appointment_slots, stores, uuids>>

REFUSAL == "Sorry, I cannot respond to this request."

\* mutant: the input is compared as typed
lower_identity(user_input) == user_input

\* user_input.lower()
lower(user_input) ==
    IF user_input = "Book Appointment" THEN "book appointment" ELSE user_input

\* mutant: "book appointment" in user_input, without lower()
booking_intent_exact(user_input) == user_input \in {"book appointment"}

\* "book appointment" in user_input.lower()
booking_intent(user_input) == lower(user_input) \in {"book appointment"}

\* similarity_threshold = 0.7, in tenths
similarity_threshold == 7

\* what save_chat_history can meet: the store answers, get_db_connection fails
\* (it reports the error and returns None, and the AttributeError that follows is
\* swallowed by the caller), or the INSERT fails (reported by save_chat_history)
SaveOutcomes == {"ok", "unreachable", "error"}

save_notice(save) ==
    IF save = "ok" THEN <<>>
    ELSE IF save = "unreachable" THEN <<"Error: {err}">>
    ELSE <<"Database error: {err}">>

\* mutant: the turn is appended after the save, inside its try block
answer_after_save(user_input, faq, reply, save) ==
    LET use_faq == faq.found /\ faq.similarity > similarity_threshold
        messages == IF use_faq THEN session_state.messages
                    ELSE Append(session_state.messages,
                                [role |-> "user", content |-> user_input])
        ai_response == IF use_faq THEN faq.answer ELSE reply
    IN /\ session_state' =
            IF save = "ok"
            THEN [session_state EXCEPT !.messages = messages,
                                       !.past = Append(@, user_input),
                                       !.generated = Append(@, ai_response)]
            ELSE [session_state EXCEPT !.messages = messages]
       /\ chat_history' =
            IF save = "ok"
            THEN save_chat_history(session_state.username,
                                   session_state.current_session_id,
                                   user_input, ai_response)
            ELSE chat_history
       /\ notice' = save_notice(save)

\* build_message_list_for_groq: the system prompt and st.session_state['messages']
build_message_list_for_groq ==
    <<[role |-> "system", content |-> "You are a helpful assistant."]>>
    \o session_state.messages

\* the FAQ answer or the generated reply, the turn appended and saved
answer(user_input, faq, reply, save) ==
    LET use_faq == faq.found /\ faq.similarity > similarity_threshold
        messages == IF use_faq THEN session_state.messages
                    ELSE Append(session_state.messages,
                                [role |-> "user", content |-> user_input])
        ai_response == IF use_faq THEN faq.answer ELSE reply
    IN /\ session_state' = [session_state EXCEPT
                              !.messages = messages,
                              !.past = Append(@, user_input),
                              !.generated = Append(@, ai_response)]
       /\ chat_history' =
            IF save = "ok"
            THEN save_chat_history(session_state.username,
                                   session_state.current_session_id,
                                   user_input, ai_response)
            ELSE chat_history
       /\ notice' = save_notice(save)

\* the chat form's submit button; toxic, faq and reply are what detect_toxicity,
\* get_most_relevant_faq and generate_response return for this input, save is
\* what save_chat_history meets
ChatSubmit(user_input, toxic, faq, reply, save) ==
    /\ LoggedIn
    /\ session_state.page = "chat"
    /\ user_input # ""
    /\ Len(session_state.generated) < MaxTurns
    /\ Len(chat_history) < MaxTurns
    /\ Len(session_state.messages) < MaxTurns
    /\ IF session_state.current_session_id = None
       THEN /\ notice' = <<"No active session selected.">>
            /\ UNCHANGED <<session_state, chat_history>>
       ELSE IF toxic
       THEN /\ session_state' = [session_state EXCEPT
                                   !.generated = Append(@, REFUSAL)]
            /\ notice' = <<"Your input contains inappropriate language. Please modify your message.">>
            /\ UNCHANGED chat_history
       ELSE IF booking_intent(user_input)
       THEN /\ session_state' = [session_state EXCEPT !.page = "booking"]
            /\ notice' = <<>>
            /\ UNCHANGED chat_history
       ELSE answer(user_input, faq, reply, save)
    /\ NewRun
    /\ UNCHANGED <<users, appointment_slots, user_personal_information,
                   user_feedback, uuids>>

\* str(result).strip().lower().rstrip('.')
cleaned_result(result) ==
    IF result = BOOKED THEN "appointment booked successfully"
    ELSE IF result = ALREADY_BOOKED THEN "slot already booked"
    ELSE IF result = LUNCH_TIME
         THEN "no appointments can be booked during lunch time from 13:00 to 14:00"
    ELSE "database error: {err}"

\* the Confirm Booking button: the slots are fetched, the one selected in the
\* select box (one of `choices`) is read and book_appointment is called
ConfirmBooking(appointment_date, choices) ==
    /\ LoggedIn
    /\ session_state.page = "booking"
    /\ LET available_slots == fetch_available_slots(appointment_date)
           options == {strftime(available_slots[i]) : i \in DOMAIN available_slots}
       IN /\ available_slots # <<>>
          /\ \E slot_time_str \in options \cap choices :
                book_begin(UI, session_state.username, appointment_date, slot_time_str)
    /\ notice' = <<>>
    /\ UNCHANGED <<stores, session_state, uuids>>

\* what the booking page does with the value book_appointment returned
booking_result(result) ==
    IF cleaned_result(result) = "slot already booked"
    THEN /\ notice' = <<"This slot is already booked. Please choose another available slot.">>
         /\ UNCHANGED session_state
    ELSE IF cleaned_result(result) = "appointment booked successfully"
    THEN /\ session_state' = [session_state EXCEPT
                                !.generated = Append(@, result),
                                !.appointment_booked = TRUE,
                                !.page = "chat"]
         /\ notice' = <<result>>
    ELSE /\ notice' = <<"Unexpected result: {result}. Please try again.">>
         /\ UNCHANGED session_state

UiBookSelect ==
    /\ book_select(UI)
    /\ IF call'[UI].pc = "idle"
       THEN booking_result(done'[UI].result)
       ELSE UNCHANGED <<session_state, notice>>
    /\ UNCHANGED <<stores, uuids>>

UiBookInsert ==
    /\ book_insert(UI)
    /\ booking_result(done'[UI].result)
    /\ UNCHANGED <<stores, uuids>>

\* mutant: the reset forgets the page and the booking flag
update_defaults_partial(state) ==
    [k \in DOMAIN state |->
        IF k \in DOMAIN defaults \ {"page", "appointment_booked"}
        THEN defaults[k] ELSE state[k]]

\* mutant: the reset keeps the session id
update_defaults_keep_session(state) ==
    [k \in DOMAIN state |->
        IF k \in DOMAIN defaults \ {"current_session_id"}
        THEN defaults[k] ELSE state[k]]

\* st.session_state.update({k: defaults[k] for k in defaults})
update_defaults(state) ==
    [k \in DOMAIN state |-> IF k \in DOMAIN defaults THEN defaults[k] ELSE state[k]]

\* the Logout button: collect_feedback draws its form, whose button cannot
\* have been clicked in this run, and the session is reset in the same run
Logout ==
    /\ LoggedIn
    /\ LET clicked == [session_state EXCEPT !.logout = TRUE]
           collected == IF clicked.logout
                        THEN [clicked EXCEPT !.feedback_collected = TRUE]
                        ELSE clicked
       IN IF collected.feedback_collected
          THEN /\ session_state' = update_defaults(collected)
               /\ notice' = <<"You have been logged out.">>
          ELSE /\ session_state' = collected
               /\ notice' = <<>>
    /\ NewRun
    /\ UNCHANGED <<users, appointment_slots, stores, uuids>>

-----------------------------------------------------------------------------
(* Callers of database.py *)

ApiRegister(username, password) ==
    /\ users' = register_user(username, password)
    /\ UNCHANGED <<appointment_slots, calls, stores, session>>

ApiBookBegin(p, appointment_date, slot_time_str) ==
    /\ book_begin(p, p, appointment_date, slot_time_str)
    /\ UNCHANGED <<stores, session>>

ApiBookSelect(p) ==
    /\ book_select(p)
    /\ UNCHANGED <<stores, session>>

ApiBookInsert(p) ==
    /\ book_insert(p)
    /\ UNCHANGED <<stores, session>>

ApiSaveChatHistory(username, session_id, user_message, ai_message) ==
    /\ Len(chat_history) < MaxRows
    /\ chat_history' = save_chat_history(username, session_id, user_message, ai_message)
    /\ UNCHANGED <<users, appointment_slots, calls, user_personal_information,
                   user_feedback, session>>

Init ==
    /\ users = {}
    /\ appointment_slots = EmptyBag
    /\ call = [p \in Procs |-> Idle]
    /\ done = [p \in Procs |-> NoCall]
    /\ confirmed = {}
    /\ chat_history = <<>>
    /\ user_personal_information = EmptyBag
    /\ user_feedback = EmptyBag
    /\ session_state = defaults
    /\ uuids = 0
    /\ notice = <<>>

NextApi ==
    \/ \E username \in Users : ApiRegister(username, "pw")
    \/ \E p \in Callers, appointment_date \in Dates, slot_time_str \in SlotStrings :
            ApiBookBegin(p, appointment_date, slot_time_str)
    \/ \E p \in Callers : ApiBookSelect(p)
    \/ \E p \in Callers : ApiBookInsert(p)

SpecApi == Init /\ [][NextApi]_vars

\* The browser session
Next ==
    \/ \E username \in Users \cup {""}, confirm_password \in Passwords :
            Register(username, "pw", confirm_password)
    \/ \E username \in Users, password \in Passwords : Login(username, password)
    \/ \E name \in {"", "Alice"}, reason \in {"", "checkup"} :
            SubmitPersonalInformation(name, "1990-01-01", reason)
    \/ \E session_id \in {ToString(i) : i \in 1..uuids} : SelectSession(session_id)
    \/ \E user_input \in Utterances, toxic \in BOOLEAN, faq \in FaqResults,
          reply \in LlmReplies :
            ChatSubmit(user_input, toxic, faq, reply, "ok")
    \/ \E appointment_date \in Dates : ConfirmBooking(appointment_date, SlotStrings)
    \/ UiBookSelect
    \/ UiBookInsert
    \/ Logout

Spec == Init /\ [][Next]_vars

\* Callers of save_chat_history: the session ids and messages they pass
SessionIds == {"1", "2"}
UserMessages == {"hi", "ok"}

NextChat ==
    \/ \E username \in Users : ApiRegister(username, "pw")
    \/ \E username \in Users, session_id \in SessionIds, user_message \in UserMessages,
          ai_message \in LlmReplies :
            ApiSaveChatHistory(username, session_id, user_message, ai_message)

SpecChat == Init /\ [][NextChat]_vars

\* What the call of ChatGroq ends in: ChatGroq was not imported, chat.invoke
\* raised e, or it returned a content
LlmOutcomes ==
    {[kind |-> "content", text |-> "Please rest."],
     [kind |-> "unconfigured", text |-> ""],
     [kind |-> "raised", text |-> "timeout"],
     [kind |-> "raised", text |-> "rate limit"]}

generate_response(out) ==
    IF out.kind = "unconfigured" THEN "AI backend not configured."
    ELSE IF out.kind = "raised" THEN "AI generation failed: " \o out.text
    ELSE out.text

\* The browser session with a text generator that can fail
NextLlm ==
    \/ \E username \in Users : Register(username, "pw", "pw")
    \/ \E username \in Users : Login(username, "pw")
    \/ \E user_input \in Utterances, toxic \in BOOLEAN, faq \in FaqResults,
          out \in LlmOutcomes :
            ChatSubmit(user_input, toxic, faq, generate_response(out), "ok")
    \/ Logout

SpecLlm == Init /\ [][NextLlm]_vars

\* The browser session over a store whose chat_history writes can fail
NextFault ==
    \/ \E username \in Users : Register(username, "pw", "pw")
    \/ \E username \in Users : Login(username, "pw")
    \/ \E session_id \in {ToString(i) : i \in 1..uuids} : SelectSession(session_id)
    \/ \E user_input \in Utterances, toxic \in BOOLEAN, faq \in FaqResults,
          reply \in LlmReplies, save \in SaveOutcomes :
            ChatSubmit(user_input, toxic, faq, reply, save)
    \/ Logout

SpecFault == Init /\ [][NextFault]_vars

\* The browser session over a database that was in use before: create_tables is
\* CREATE TABLE IF NOT EXISTS, so the users and the profile rows the database
\* already holds stay
StoredProfiles ==
    {EmptyBag,
     SetToBag({[username |-> "alice", name |-> "Alice", birth_date |-> "1990-01-01",
                reason_for_appointment |-> "checkup"]})}

InitProfile ==
    /\ users = {[username |-> u, password |-> hash_password("pw")] : u \in Users}
    /\ appointment_slots = EmptyBag
    /\ call = [p \in Procs |-> Idle]
    /\ done = [p \in Procs |-> NoCall]
    /\ confirmed = {}
    /\ chat_history = <<>>
    /\ user_personal_information \in StoredProfiles
    /\ user_feedback = EmptyBag
    /\ session_state = defaults
    /\ uuids = 0
    /\ notice = <<>>

NextProfile ==
    \/ \E username \in Users, password \in Passwords : Login(username, password)
    \/ \E name \in {"", "Alice"}, reason \in {"", "checkup"} :
            SubmitPersonalInformation(name, "1990-01-01", reason)
    \/ \E user_input \in Utterances, toxic \in BOOLEAN, faq \in FaqResults,
          reply \in LlmReplies :
            ChatSubmit(user_input, toxic, faq, reply, "ok")
    \/ Logout

SpecProfile == InitProfile /\ [][NextProfile]_vars

-----------------------------------------------------------------------------
(* Booking store: properties of the calls of book_appointment, SpecApi *)

\* p's call returns in this step
Returns(p) == call[p].pc # "idle" /\ call'[p].pc = "idle"

\* the number of rows of the table with is_booked = TRUE for the key
BookedRows(appointment_date, slot_time) ==
    LET rows == {r \in BagToSet(appointment_slots) :
                    /\ r.appointment_date = appointment_date
                    /\ r.slot_time = slot_time
                    /\ r.is_booked}
    IN BagCardinality([r \in rows |-> CopiesIn(r, appointment_slots)])

\* every caller's last call has returned, was for the key, was issued before any
\* call for the key was confirmed, and did not end in a database error
ConcurrentBatch(appointment_date, slot_time) ==
    \A p \in Callers :
        /\ done[p].result \notin {NO_RESULT, DATABASE_ERROR}
        /\ done[p].appointment_date = appointment_date
        /\ done[p].slot_time = slot_time
        /\ ~done[p].after

\* C1: when all callers have called book_appointment for the same (date, slot)
\* concurrently, i.e. each call was issued before any of them was confirmed, exactly
\* one call returned 'Appointment booked successfully.' and every other call
\* returned 'Slot already booked.'
C1_ExactlyOneConfirmed ==
    \A appointment_date \in Dates, slot_time \in {time(9, 0)} :
        ConcurrentBatch(appointment_date, slot_time) =>
            \E p \in Callers :
                /\ done[p].result = BOOKED
                /\ \A q \in Callers \ {p} : done[q].result = ALREADY_BOOKED

\* C2: in every reachable state there is at most one row with is_booked = TRUE
\* for each (appointment_date, slot_time) pair
C2_AtMostOneBookedRow ==
    \A appointment_date \in Dates, slot_time_str \in SlotStrings :
        BookedRows(appointment_date, strptime(slot_time_str)) <= 1

\* the elements of a sequence
Range(seq) == {seq[i] : i \in DOMAIN seq}

\* C3: once a call for (D, S) has returned Confirmed, every call for (D, S) that
\* starts afterwards returns 'Slot already booked.', and S is in no later result of
\* fetch_available_slots(D)
C3_BookedStaysBooked ==
    /\ [](\A key \in confirmed : key[2] \notin Range(fetch_available_slots(key[1])))
    /\ [][\A p \in Procs :
            (Returns(p) /\ call[p].after) => done'[p].result = ALREADY_BOOKED]_vars

C3_Witness ==
    \E p \in Callers :
        /\ done[p].after
        /\ done[p].result = ALREADY_BOOKED
        /\ <<done[p].appointment_date, done[p].slot_time>> \in confirmed

\* the 14 slots of a day without bookings
FourteenSlots ==
    <<540, 570, 600, 630, 660, 690, 720, 750, 840, 870, 900, 930, 960, 990>>

\* C4: fetch_available_slots(D) is strictly ascending and holds exactly the
\* 30-minute boundaries in [09:00, 17:00) outside [13:00, 14:00) that have no booked
\* row for D; with no booked row for D it is the 14 slots 09:00..12:30, 14:00..16:30
C4_AvailableSlots ==
    \A date \in Dates :
        LET available_slots == fetch_available_slots(date)
            booked == {r.slot_time :
                          r \in {x \in BagToSet(appointment_slots) :
                                    x.appointment_date = date /\ x.is_booked}}
            expected == {t \in {30 * k : k \in 0..47} :
                            /\ 540 <= t /\ t < 1020
                            /\ ~(780 <= t /\ t < 840)
                            /\ t \notin booked}
        IN /\ \A i \in DOMAIN available_slots :
                i > 1 => available_slots[i - 1] < available_slots[i]
           /\ Range(available_slots) = expected
           /\ booked = {} => available_slots = FourteenSlots

C4_Witness ==
    \E d1 \in Dates, d2 \in Dates :
        /\ Len(fetch_available_slots(d1)) = 13
        /\ 540 \notin Range(fetch_available_slots(d1))
        /\ BookedRows(d2, 540) = 0
        /\ BookedRows(d2, 1020) = 1
        /\ fetch_available_slots(d2) = FourteenSlots

\* C5: a call for a slot outside [09:00, 17:00) returns OutsideWindow and no row is
\* inserted for its (date, slot)
C5_OutsideWindowRejected ==
    \A p \in Callers :
        (/\ done[p].result \notin {NO_RESULT, DATABASE_ERROR}
         /\ (done[p].slot_time < 540 \/ done[p].slot_time >= 1020))
        => /\ done[p].result = "OutsideWindow"
           /\ BookedRows(done[p].appointment_date, done[p].slot_time) = 0

\* C6: a call for a slot S with 13:00 <= S < 14:00 returns the lunch-time refusal
\* whatever rows the table holds, and leaves the table unchanged
C6_LunchExcluded ==
    [][\A p \in Procs :
        (/\ Returns(p)
         /\ 780 <= strptime(call[p].slot_time_str)
         /\ strptime(call[p].slot_time_str) < 840)
        => /\ done'[p].result = LUNCH_TIME
           /\ appointment_slots' = appointment_slots]_vars

C6_Witness ==
    \E p \in Callers :
        /\ done[p].result = LUNCH_TIME
        /\ done[p].slot_time = 780
        /\ booked_slots(done[p].appointment_date) # {}

\* C7: a call that returns Confirmed adds exactly one row, its own (date, slot,
\* user, is_booked = TRUE), and changes no other row; a call that returns anything
\* else leaves the table as it was; nothing else changes the table
C7_OneRowPerConfirmed ==
    [][/\ \A p \in Procs :
            Returns(p) =>
                IF done'[p].result = BOOKED
                THEN appointment_slots' =
                        appointment_slots (+)
                        SetToBag({[appointment_date |-> call[p].appointment_date,
                                   slot_time |-> strptime(call[p].slot_time_str),
                                   is_booked |-> TRUE,
                                   booked_by |-> call[p].username]})
                ELSE appointment_slots' = appointment_slots
       /\ appointment_slots' # appointment_slots =>
            \E p \in Procs : Returns(p) /\ done'[p].result = BOOKED]_vars

C7_Witness ==
    \E p \in Callers, q \in Callers :
        /\ done[p].result = BOOKED
        /\ done[q].result = DATABASE_ERROR
        /\ BagCardinality(appointment_slots) = 2

-----------------------------------------------------------------------------
(* Session: properties of the script runs of doctor.py, Spec *)

\* C8: a booked row never leaves the table and never changes its holder, whatever
\* the session does (booking, chat, session selection, login, logout)
C8_BookedIsTerminal ==
    [][\A r \in BagToSet(appointment_slots) :
        r.is_booked =>
            CopiesIn(r, appointment_slots') >= CopiesIn(r, appointment_slots)]_vars

C8_Witness ==
    \E r \in BagToSet(appointment_slots) :
        /\ r.is_booked
        /\ session_state.username \notin {None, r.booked_by}
        /\ session_state.past # <<>>
        /\ BagCardinality(appointment_slots) = 2

\* the notices of a registration attempt and of a failed login
AttemptNotices ==
    {<<"Passwords do not match">>,
     <<"Username cannot be empty.", "Registered. Please login.">>,
     <<"Username already exists. Please choose a different one.",
       "Registered. Please login.">>,
     <<"You have successfully registered.", "Registered. Please login.">>,
     <<"Invalid Username/Password">>}

\* C9: from Anonymous the session-local fields change only in a login of a
\* registered user that the script reports as successful, and then username is that
\* user; a registration attempt and a failed login change none of them
C9_OnlyLoginLeavesAnonymous ==
    [][session_state.username = "None" =>
        /\ session_state' # session_state =>
            /\ notice' = <<"Logged in as {username}">>
            /\ \E u \in users :
                /\ u.username = session_state'.username
                /\ \E password \in Passwords : u.password = <<"bcrypt", password>>
        /\ notice' \in AttemptNotices => session_state' = session_state]_vars

C9_Witness ==
    /\ notice = <<"Invalid Username/Password">>
    /\ users # {}
    /\ session_state.username = "None"
    /\ uuids = 1

\* the session-local fields all equal their defaults
FreshSession ==
    /\ session_state.username = "None"
    /\ session_state.current_session_id = "None"
    /\ session_state.past = <<>>
    /\ session_state.generated = <<>>
    /\ session_state.input_text = ""
    /\ session_state.messages =
          <<[role |-> "assistant",
             content |-> "Welcome to the doctor appointment service! How can I assist you today?"]>>
    /\ session_state.personal_info_collected = FALSE
    /\ session_state.feedback_collected = FALSE
    /\ session_state.logout = FALSE
    /\ session_state.appointment_booked = FALSE
    /\ session_state.page = "chat"

\* C10: the step that logs the session out leaves every session-local field at its
\* default and the rows of chat_history, appointment_slots and
\* user_personal_information as they were, and the session stays so while anonymous
C10_LogoutResetsSessionOnly ==
    /\ [](session_state.username = "None" => FreshSession)
    /\ [][(session_state.username # "None" /\ session_state'.username = "None") =>
            /\ notice' = <<"You have been logged out.">>
            /\ chat_history' = chat_history
            /\ appointment_slots' = appointment_slots
            /\ user_personal_information' = user_personal_information]_vars

C10_Witness ==
    /\ notice = <<"You have been logged out.">>
    /\ FreshSession
    /\ chat_history # <<>>
    /\ \E r \in BagToSet(appointment_slots) :
            r.booked_by = chat_history[Len(chat_history)].username

-----------------------------------------------------------------------------
(* Logout and intake form: properties of the script runs of doctor.py, Spec *)

\* C11: the session is reset to Anonymous only from LoggedOut (pending feedback),
\* i.e. in a later event than the logout request: the step that clears username
\* starts in a state where logout has been requested, and never in the step of
\* the request itself
C11_FeedbackBeforeReset ==
    [][(session_state.username # "None" /\ session_state'.username = "None") =>
            session_state.logout = TRUE]_vars

\* the profile rows of a user
ProfileRows(username) ==
    {r \in BagToSet(user_personal_information) : r.username = username}

\* the step is the script run of the Submit Personal Information button
IntakeSubmitted(name, reason_for_appointment) ==
    SubmitPersonalInformation(name, "1990-01-01", reason_for_appointment)

\* C13: after the intake form is submitted the profile store holds exactly one row
\* for the user, and it carries the submitted values
C13_IntakeUpserts ==
    [][\A name \in {"", "Alice"}, reason \in {"", "checkup"} :
        IntakeSubmitted(name, reason) =>
            \E r \in BagToSet(user_personal_information') :
                /\ r.username = session_state.username
                /\ r.name = name
                /\ r.reason_for_appointment = reason
                /\ CopiesIn(r, user_personal_information') = 1
                /\ \A q \in BagToSet(user_personal_information') :
                        q.username = r.username => q = r]_vars

\* C14: personal_info_collected becomes True only in a step that leaves a stored
\* profile of the user with a non-empty name and a non-empty reason
C14_ChattingNeedsStoredProfile ==
    [][(~session_state.personal_info_collected
        /\ session_state'.personal_info_collected) =>
            \E r \in BagToSet(user_personal_information') :
                /\ r.username = session_state.username
                /\ r.name # ""
                /\ r.reason_for_appointment # ""]_vars

-----------------------------------------------------------------------------
(* Chat: properties of the script run of the chat form, Spec *)

\* the row save_chat_history writes for one turn of the active session
TurnRow(user_input, ai_response) ==
    [username |-> session_state.username,
     session_id |-> session_state.current_session_id,
     user_message |-> user_input, ai_message |-> ai_response]

\* the step is the script run of a chat form submitted with an active session
Submitted(user_input, toxic, faq, reply) ==
    /\ session_state.current_session_id # "None"
    /\ ChatSubmit(user_input, toxic, faq, reply, "ok")

\* C15: every submitted utterance, whatever its route, appends exactly one turn
\* to past and generated and stores exactly one chat_history row for it under the
\* active session id
C15_OneTurnPerUtterance ==
    [][\A user_input \in Utterances, toxic \in BOOLEAN, faq \in FaqResults,
          reply \in LlmReplies :
        Submitted(user_input, toxic, faq, reply) =>
            /\ session_state'.past = Append(session_state.past, user_input)
            /\ Len(session_state'.generated) = Len(session_state.generated) + 1
            /\ Len(chat_history') = Len(chat_history) + 1
            /\ chat_history'[Len(chat_history')] =
                    TurnRow(user_input,
                            session_state'.generated[Len(session_state'.generated)])]_vars

\* C16: a toxic utterance is recorded as a turn: the utterance is appended to past,
\* the fixed refusal to generated, and the pair is stored in chat_history
C16_ToxicTurnRecorded ==
    [][\A user_input \in Utterances, faq \in FaqResults, reply \in LlmReplies :
        Submitted(user_input, TRUE, faq, reply) =>
            /\ session_state'.generated =
                    Append(session_state.generated, "Sorry, I cannot respond to this request.")
            /\ session_state'.past = Append(session_state.past, user_input)
            /\ chat_history' =
                    Append(chat_history,
                           TurnRow(user_input, "Sorry, I cannot respond to this request."))]_vars

\* the utterance contains 'book appointment', whatever its case
ContainsBookAppointment(user_input) == user_input = "Book Appointment"

\* C17: a toxic utterance gets the refusal and nothing else; otherwise an utterance
\* with 'book appointment' switches to the booking page and nothing else; otherwise
\* the FAQ answer is the reply exactly when a match with similarity above 0.7
\* exists; otherwise the text generator's reply is the reply
C17_RoutingPriority ==
    [][\A user_input \in Utterances, toxic \in BOOLEAN, faq \in FaqResults,
          reply \in LlmReplies :
        Submitted(user_input, toxic, faq, reply) =>
            IF toxic
            THEN /\ session_state'.generated =
                        Append(session_state.generated,
                               "Sorry, I cannot respond to this request.")
                 /\ session_state'.page = "chat"
                 /\ session_state'.messages = session_state.messages
            ELSE IF ContainsBookAppointment(user_input)
            THEN /\ session_state'.page = "booking"
                 /\ session_state'.generated = session_state.generated
                 /\ session_state'.messages = session_state.messages
                 /\ chat_history' = chat_history
            ELSE IF faq.found /\ faq.similarity > 7
            THEN /\ session_state'.generated =
                        Append(session_state.generated, faq.answer)
                 /\ session_state'.messages = session_state.messages
                 /\ session_state'.page = "chat"
            ELSE /\ session_state'.generated = Append(session_state.generated, reply)
                 /\ session_state'.messages =
                        Append(session_state.messages,
                               [role |-> "user", content |-> user_input])
                 /\ session_state'.page = "chat"]_vars

C17_Witness ==
    /\ notice = <<"Your input contains inappropriate language. Please modify your message.">>
    /\ session_state.page = "chat"
    /\ session_state.generated =
            <<"We open at 9.", "Sorry, I cannot respond to this request.">>
    /\ session_state.past = <<"hi">>
    /\ session_state.messages = <<>>

-----------------------------------------------------------------------------
(* Chat store: properties of save_chat_history and fetch_chat_history, SpecChat *)

\* C18: a successful save_chat_history for (username, session_id) extends what
\* fetch_chat_history returns for that user and session by the saved pair, at the
\* end, and changes what it returns for no other user or session; so the pairs read
\* back are the pairs appended, in the order of the appends
C18_RoundTrip ==
    [][\A username \in Users, session_id \in SessionIds, user_message \in UserMessages,
          ai_message \in LlmReplies :
        (/\ ApiSaveChatHistory(username, session_id, user_message, ai_message)
         /\ \E u \in users : u.username = username) =>
            \A u2 \in Users, s2 \in SessionIds :
                fetch_chat_history(u2, s2)' =
                    IF u2 = username /\ s2 = session_id
                    THEN Append(fetch_chat_history(u2, s2), <<user_message, ai_message>>)
                    ELSE fetch_chat_history(u2, s2)]_vars

C18_Witness ==
    /\ Len(chat_history) = 3
    /\ chat_history[2].username = "bob"
    /\ chat_history[2].session_id = "1"
    /\ fetch_chat_history("alice", "1") = <<<<"hi", "Please rest.">>, <<"ok", "Please rest.">>>>

-----------------------------------------------------------------------------
(* Session selection and persistence failure *)

\* the stored rows of a user's session, oldest first
StoredTurns(username, session_id) ==
    SelectSeq(chat_history,
              LAMBDA r : r.username = username /\ r.session_id = session_id)

\* C19: selecting a session makes it the current one and replaces past and
\* generated by the user messages and the replies of its stored rows, oldest first,
\* whatever the lists held before; the lists are determined by the stored rows, so
\* selecting again without a write in between yields the same lists
C19_SelectRehydrates ==
    [][\A session_id \in {ToString(i) : i \in 1..uuids} :
        SelectSession(session_id) =>
            LET rows == StoredTurns(session_state.username, session_id)
            IN /\ session_state'.current_session_id = session_id
               /\ session_state'.past = [i \in DOMAIN rows |-> rows[i].user_message]
               /\ session_state'.generated = [i \in DOMAIN rows |-> rows[i].ai_message]]_vars

C19_Witness ==
    /\ uuids = 2
    /\ session_state.current_session_id = "1"
    /\ Len(chat_history) = 2
    /\ chat_history[1].session_id = "1"
    /\ chat_history[2].session_id = "2"
    /\ chat_history[1].username = session_state.username
    /\ chat_history[2].username = session_state.username
    /\ chat_history[1].ai_message # chat_history[2].ai_message
    /\ session_state.past = <<"hi">>
    /\ session_state.generated = <<chat_history[1].ai_message>>

\* C20: when the save of a turn fails, the turn is in past and generated all the
\* same, no row is stored, and the session stays on the chat page with the same
\* user and session id, where the next utterance is handled
C20_SaveFailureKeepsTurn ==
    [][\A user_input \in Utterances, faq \in FaqResults, reply \in LlmReplies,
          save \in {"unreachable", "error"} :
        (/\ session_state.current_session_id # "None"
         /\ ~ContainsBookAppointment(user_input)
         /\ ChatSubmit(user_input, FALSE, faq, reply, save)) =>
            /\ session_state'.past = Append(session_state.past, user_input)
            /\ session_state'.generated =
                    Append(session_state.generated,
                           IF faq.found /\ faq.similarity > 7 THEN faq.answer ELSE reply)
            /\ chat_history' = chat_history
            /\ session_state'.page = "chat"
            /\ session_state'.username = session_state.username
            /\ session_state'.current_session_id = session_state.current_session_id]_vars

\* a turn whose save failed is followed by a turn that was handled and saved
C20_Witness ==
    /\ session_state.past = <<"hi", "hi">>
    /\ session_state.generated = <<"Please rest.", "We open at 9.">>
    /\ Len(chat_history) = 1
    /\ chat_history[1].ai_message = "We open at 9."
    /\ chat_history[1].session_id = session_state.current_session_id
    /\ session_state.page = "chat"
    /\ notice = <<>>

-----------------------------------------------------------------------------
(* Booking page: properties of the script runs of doctor.py, Spec *)

\* C21: an utterance with the booking intent only flips page from chat to booking:
\* every other session field and every table is as before
C21_BookingIntentOnlyFlipsPage ==
    [][\A faq \in FaqResults, reply \in LlmReplies :
        Submitted("Book Appointment", FALSE, faq, reply) =>
            /\ session_state' = [session_state EXCEPT !.page = "booking"]
            /\ session_state.page = "chat"
            /\ chat_history' = chat_history
            /\ appointment_slots' = appointment_slots
            /\ user_personal_information' = user_personal_information]_vars

C21_Witness ==
    /\ session_state.page = "booking"
    /\ session_state.past = <<"hi">>
    /\ session_state.generated = <<"Please rest.">>
    /\ session_state.messages = <<[role |-> "user", content |-> "hi"]>>
    /\ Len(chat_history) = 1
    /\ ~session_state.appointment_booked
    /\ call["ui"].pc = "idle"

\* the booking page's call of book_appointment returns in this step
UiReturns == call["ui"].pc # "idle" /\ call'["ui"].pc = "idle"

\* C22: the booking page goes back to chat through a reserve attempt exactly when
\* the attempt is confirmed, and then one confirmation turn (a pair of past and
\* generated) is appended and appointment_booked is set; after any other outcome
\* the page, past, generated and appointment_booked are as before, and no further
\* call is in flight
C22_ConfirmedReturnsToChat ==
    [][UiReturns =>
        IF done'["ui"].result = "Appointment booked successfully."
        THEN /\ session_state'.page = "chat"
             /\ session_state'.appointment_booked
             /\ Len(session_state'.past) = Len(session_state.past) + 1
             /\ session_state'.generated =
                    Append(session_state.generated, "Appointment booked successfully.")
        ELSE /\ session_state'.page = "booking"
             /\ session_state'.past = session_state.past
             /\ session_state'.generated = session_state.generated
             /\ session_state'.appointment_booked = session_state.appointment_booked]_vars

\* a script run that takes the session from the booking page back to the chat page
\* and changes nothing else
ReturnToChat ==
    /\ Next
    /\ session_state' = [session_state EXCEPT !.page = "chat"]
    /\ appointment_slots' = appointment_slots
    /\ chat_history' = chat_history
    /\ call' = call

\* C23: a logged-in session on the booking page can always go back to the chat
\* page by a step that books nothing, appends no turn and changes no other field
C23_CanReturnToChat ==
    (session_state.username # "None" /\ session_state.page = "booking"
     /\ call["ui"].pc = "idle")
        => ENABLED ReturnToChat

-----------------------------------------------------------------------------
(* Text generator: properties of the chat form's LLM route, SpecLlm *)

\* the ways the text generator fails, and what generate_response returns for them
LlmFailures == {out \in LlmOutcomes : out.kind # "content"}
FailureReplies == {generate_response(out) : out \in LlmFailures}

\* C24: when the text generator fails on the LLM route, the utterance and the reply
\* are appended as one pair and stored, and the reply is the one fallback text:
\* the same as for every failure before it
C24_FixedFallbackRecorded ==
    [][\A faq \in {f \in FaqResults : ~(f.found /\ f.similarity > 7)},
          out \in LlmFailures :
        Submitted("hi", FALSE, faq, generate_response(out)) =>
            /\ session_state'.past = Append(session_state.past, "hi")
            /\ session_state'.generated =
                    Append(session_state.generated, generate_response(out))
            /\ chat_history' = Append(chat_history, TurnRow("hi", generate_response(out)))
            /\ \A i \in DOMAIN session_state.generated :
                    session_state.generated[i] \in FailureReplies =>
                        session_state.generated[i] = generate_response(out)]_vars

-----------------------------------------------------------------------------
(* Session invariants, Spec *)

\* C25: the list passed to generate_response is bounded independently of the
\* number of utterances: it never holds the system prompt and one entry for each
\* of the MaxTurns utterances a session of the model can make
C25_BoundedMessageList ==
    Len(build_message_list_for_groq) <= MaxTurns

\* C26: past and generated have the same length in every state
C26_PastGeneratedAligned ==
    Len(session_state.past) = Len(session_state.generated)

\* C27: username is set exactly when current_session_id is set, the chat form never
\* reports 'No active session selected.', and every stored turn has a session id
C27_UserIffSession ==
    /\ (session_state.username = "None") <=> (session_state.current_session_id = "None")
    /\ notice # <<"No active session selected.">>
    /\ \A i \in DOMAIN chat_history : chat_history[i].session_id # "None"

C27_Witness ==
    /\ uuids = 2
    /\ session_state.username = "bob"
    /\ session_state.current_session_id = "1"
    /\ Len(chat_history) = 1
    /\ chat_history[1].session_id = "1"
    /\ notice = <<>>

\* C28: while a logged-in session has personal_info_collected False, no step is a
\* submitted utterance, stores a turn, switches to the booking page or calls
\* book_appointment
C28_ProfileGatesChat ==
    [][(session_state.username # "None" /\ ~session_state.personal_info_collected) =>
        /\ ~\E user_input \in Utterances, toxic \in BOOLEAN, faq \in FaqResults,
              reply \in LlmReplies :
                ChatSubmit(user_input, toxic, faq, reply, "ok")
        /\ chat_history' = chat_history
        /\ session_state'.page # "booking"
        /\ call' = call]_vars

=============================================================================
